---- MODULE Spec2Model ----
(***************************************************************************)
(* Model of rs-myTools: the runtime-checked cell SelfRef (src/borrow.rs),  *)
(* the copy cell MutShared (src/borrow.rs), the scoped temporary file       *)
(* TempFile (src/io.rs) and the field splitter FieldSplit (src/borrow.rs). *)
(***************************************************************************)
EXTENDS Integers, Sequences, FiniteSets, TLC

\* ------------------------------------------------------------------------
\* Bounds
\* ------------------------------------------------------------------------
MaxViews == 3
MaxDepth == 2
MaxValue == 12
MaxCell == 2
MaxNest == 2
MaxInst == 2
MaxTicks == 2
MaxLen == 1
MaxField == 1

\* ------------------------------------------------------------------------
\* SelfRef<T>: RefCell-backed cell
\*   value    the contained T (an integer here)
\*   flag     RefCell's borrow flag: 0 unused, n > 0 readers, -1 writing
\*   views    the guard objects (Ref / RefMut) that are alive
\*   stack    the with / with_mut calls whose closure is running
\*   mode     "run", or "unwind" while a panic propagates
\*   ev       the last borrow request: its kind, outcome, views before it
\*   lastCall the last with / with_mut call that ended; prevCall the one
\*            before it
\* ------------------------------------------------------------------------
VARIABLES value, flag, views, stack, mode, ev, lastCall, prevCall

\* ------------------------------------------------------------------------
\* MutShared<T: Copy>: Cell-backed cell
\*   cell     the stored T
\*   initial  the argument of MutShared::new
\*   calls    the update calls whose closure is running
\*   got      what the last get() returned, None once the cell is stored to
\*   lastSet  the argument of the most recent set, None before the first
\*   pending  the update(f) that completed last with no set since
\* ------------------------------------------------------------------------
VARIABLES cell, initial, calls, got, lastSet, pending

\* ------------------------------------------------------------------------
\* TempFile
\*   clock    what SystemTime::now() reads, in nanoseconds since the epoch
\*   fs       the files of the temporary directory: path -> bytes
\*   inst     every TempFile constructed so far, dropped ones included
\*   res      what the last TempFile operation handed to its caller
\* ------------------------------------------------------------------------
VARIABLES clock, fs, inst, res

\* ------------------------------------------------------------------------
\* FieldSplit<'a, T>
\*   parent   the structure behind the splitter's &mut T: field -> value
\*   held     the field the &mut U returned by the last field call points
\*            into, "none" once that reference is dead
\*   fev      the last thing done through the splitter: a field call with
\*            the value it saw, or a write with the parent as it was before
\*   written  the fields written through a returned reference so far
\* ------------------------------------------------------------------------
VARIABLES parent, held, fev, written

cellVars == <<value, flag, views, stack, mode, ev, lastCall, prevCall>>

mutVars == <<cell, initial, calls, got, lastSet, pending>>

tmpVars == <<clock, fs, inst, res>>

splitVars == <<parent, held, fev, written>>

vars == <<cellVars, mutVars, tmpVars, splitVars>>

notCell == <<mutVars, tmpVars, splitVars>>

notMut == <<cellVars, tmpVars, splitVars>>

notTmp == <<cellVars, mutVars, splitVars>>

notSplit == <<cellVars, mutVars, tmpVars>>

NoCall == [kind |-> "none", how |-> "none", before |-> 0, after |-> 0,
           old |-> 0, result |-> 0]

NShared(vs) == Len(SelectSeq(vs, LAMBDA v : v.kind = "shared"))

NExcl(vs) == Len(SelectSeq(vs, LAMBDA v : v.kind = "excl"))

Request(op, ok) ==
    [op |-> op, ok |-> ok, shared |-> NShared(views), excl |-> NExcl(views)]

\* variant: a reader is admitted only when the cell is unused
CanBorrow_OnlyWhenUnused(f) == f = 0

\* RefCell::try_borrow: readers are admitted unless a writer holds the cell
CanBorrow(f) == f >= 0

\* variant: a writer is refused only when another writer holds the cell
CanBorrowMut_IgnoreReaders(f) == f >= 0

\* RefCell::try_borrow_mut: a writer is admitted only when the flag is unused
CanBorrowMut(f) == f = 0

\* variant: dropping the exclusive guard leaves the flag set
FlagAfterDrop_StickyWriter(f, kind) == IF kind = "shared" THEN f - 1 ELSE f

\* Drop for Ref (flag - 1) and for RefMut (flag + 1)
FlagAfterDrop(f, kind) == IF kind = "shared" THEN f - 1 ELSE f + 1

RECURSIVE DropAll(_, _)
DropAll(f, vs) ==
    IF vs = <<>> THEN f
    ELSE DropAll(FlagAfterDrop(f, Head(vs).kind), Tail(vs))

RemoveAt(s, i) == SubSeq(s, 1, i - 1) \o SubSeq(s, i + 1, Len(s))

\* a guard held as a local of the current scope
NewView(kind, depth, w) == [kind |-> kind, depth |-> depth, with |-> w]

\* SelfRef::borrow
Borrow ==
    /\ mode = "run"
    /\ CanBorrow(flag) => Len(views) < MaxViews
    /\ IF CanBorrow(flag)
       THEN /\ flag' = flag + 1
            /\ views' = Append(views, NewView("shared", Len(stack), FALSE))
            /\ ev' = Request("borrow", TRUE)
            /\ mode' = mode
       ELSE /\ mode' = "unwind"
            /\ ev' = Request("borrow", FALSE)
            /\ UNCHANGED <<flag, views>>
    /\ UNCHANGED <<value, stack, lastCall, prevCall>>
    /\ UNCHANGED notCell

\* SelfRef::borrow_mut
BorrowMut ==
    /\ mode = "run"
    /\ CanBorrowMut(flag) => Len(views) < MaxViews
    /\ IF CanBorrowMut(flag)
       THEN /\ flag' = -1
            /\ views' = Append(views, NewView("excl", Len(stack), FALSE))
            /\ ev' = Request("borrow_mut", TRUE)
            /\ mode' = mode
       ELSE /\ mode' = "unwind"
            /\ ev' = Request("borrow_mut", FALSE)
            /\ UNCHANGED <<flag, views>>
    /\ UNCHANGED <<value, stack, lastCall, prevCall>>
    /\ UNCHANGED notCell

\* a guard returned by borrow / borrow_mut goes out of scope
Release ==
    /\ mode = "run"
    /\ \E i \in 1..Len(views) :
          /\ ~views[i].with
          /\ views[i].depth = Len(stack)
          /\ flag' = FlagAfterDrop(flag, views[i].kind)
          /\ views' = RemoveAt(views, i)
    /\ UNCHANGED <<value, stack, mode, ev, lastCall, prevCall>>
    /\ UNCHANGED notCell

\* a write through the DerefMut of an exclusive guard of the current scope
\* (the RefMut of borrow_mut, or the &mut T handed to with_mut's closure)
Write ==
    /\ mode = "run"
    /\ value < MaxValue
    /\ \E i \in 1..Len(views) :
          /\ views[i].kind = "excl"
          /\ views[i].depth = Len(stack)
    /\ value' = value + 1
    /\ UNCHANGED <<flag, views, stack, mode, ev, lastCall, prevCall>>
    /\ UNCHANGED notCell

Frame(kind) == [kind |-> kind, before |-> Len(views), old |-> value]

\* SelfRef::with, up to the call of f: self.inner.borrow()
With ==
    /\ mode = "run"
    /\ CanBorrow(flag) => (Len(views) < MaxViews /\ Len(stack) < MaxDepth)
    /\ IF CanBorrow(flag)
       THEN /\ flag' = flag + 1
            /\ views' = Append(views, NewView("shared", Len(stack) + 1, TRUE))
            /\ stack' = Append(stack, Frame("with"))
            /\ ev' = Request("with", TRUE)
            /\ mode' = mode
       ELSE /\ mode' = "unwind"
            /\ ev' = Request("with", FALSE)
            /\ UNCHANGED <<flag, views, stack>>
    /\ UNCHANGED <<value, lastCall, prevCall>>
    /\ UNCHANGED notCell

\* SelfRef::with_mut, up to the call of f: self.inner.borrow_mut()
WithMut ==
    /\ mode = "run"
    /\ CanBorrowMut(flag) => (Len(views) < MaxViews /\ Len(stack) < MaxDepth)
    /\ IF CanBorrowMut(flag)
       THEN /\ flag' = -1
            /\ views' = Append(views, NewView("excl", Len(stack) + 1, TRUE))
            /\ stack' = Append(stack, Frame("with_mut"))
            /\ ev' = Request("with_mut", TRUE)
            /\ mode' = mode
       ELSE /\ mode' = "unwind"
            /\ ev' = Request("with_mut", FALSE)
            /\ UNCHANGED <<flag, views, stack>>
    /\ UNCHANGED <<value, lastCall, prevCall>>
    /\ UNCHANGED notCell

\* the guards that die when the innermost with / with_mut call ends: the
\* locals of f, then the temporary guard of the call itself
Dying(vs, d) == SelectSeq(vs, LAMBDA v : v.depth >= d)

Surviving(vs, d) == SelectSeq(vs, LAMBDA v : v.depth < d)

\* variant: the temporary guard is released on normal return only
EndCall_LeakOnPanic(how) ==
    LET d == Len(stack)
        fr == stack[d]
        keep == IF how = "panic" THEN views ELSE Surviving(views, d)
    IN  /\ flag' = IF how = "panic" THEN flag ELSE DropAll(flag, Dying(views, d))
        /\ views' = keep
        /\ stack' = SubSeq(stack, 1, d - 1)
        /\ prevCall' = lastCall
        /\ lastCall' = [kind |-> fr.kind, how |-> how, before |-> fr.before,
                        after |-> Len(keep), old |-> fr.old,
                        result |-> value]

EndCall(how) ==
    LET d == Len(stack)
        fr == stack[d]
    IN  /\ flag' = DropAll(flag, Dying(views, d))
        /\ views' = Surviving(views, d)
        /\ stack' = SubSeq(stack, 1, d - 1)
        /\ prevCall' = lastCall
        /\ lastCall' = [kind |-> fr.kind, how |-> how, before |-> fr.before,
                        after |-> Len(Surviving(views, d)), old |-> fr.old,
                        result |-> value]

\* f returns: with / with_mut return f's result, the temporary guard drops
Return ==
    /\ mode = "run"
    /\ stack # <<>>
    /\ EndCall("return")
    /\ UNCHANGED <<value, mode, ev>>
    /\ UNCHANGED notCell

\* f fails abruptly
FPanic ==
    /\ mode = "run"
    /\ stack # <<>>
    /\ mode' = "unwind"
    /\ ev' = Request("f", FALSE)
    /\ UNCHANGED <<value, flag, views, stack, lastCall, prevCall>>
    /\ UNCHANGED notCell

\* the panic unwinds the innermost with / with_mut call
Unwind ==
    /\ mode = "unwind"
    /\ stack # <<>>
    /\ EndCall("panic")
    /\ UNCHANGED <<value, mode, ev>>
    /\ UNCHANGED notCell

\* the panic unwinds the outermost scope: the guards it holds are dropped
UnwindScope ==
    /\ mode = "unwind"
    /\ stack = <<>>
    /\ views # <<>>
    /\ flag' = DropAll(flag, views)
    /\ views' = <<>>
    /\ UNCHANGED <<value, stack, mode, ev, lastCall, prevCall>>
    /\ UNCHANGED notCell

\* the panic is caught (catch_unwind) in the current scope
Catch ==
    /\ mode = "unwind"
    /\ mode' = "run"
    /\ UNCHANGED <<value, flag, views, stack, ev, lastCall, prevCall>>
    /\ UNCHANGED notCell


\* ------------------------------------------------------------------------
\* MutShared
\* ------------------------------------------------------------------------
None == -1

CellValues == 0..MaxCell

\* the closures handed to update: wrapping increment, wrapping doubling,
\* identity
Funs == {"inc", "dbl", "id"}

Apply(f, v) ==
    CASE f = "inc" -> (v + 1) % (MaxCell + 1)
      [] f = "dbl" -> (2 * v) % (MaxCell + 1)
      [] f = "id" -> v

NoUpdate == [f |-> "none", v |-> None, re |-> FALSE]

\* every running closure has seen the cell stored to under it
Reentered(cs) == [i \in DOMAIN cs |-> [cs[i] EXCEPT !.re = TRUE]]

\* MutShared::get
Get ==
    /\ got' = cell
    /\ UNCHANGED <<cell, initial, calls, lastSet, pending>>
    /\ UNCHANGED notMut

\* variant: the store is lost
Set_Lost(x) ==
    /\ cell' = cell
    /\ lastSet' = x
    /\ got' = None
    /\ pending' = NoUpdate
    /\ calls' = Reentered(calls)
    /\ UNCHANGED initial
    /\ UNCHANGED notMut

\* MutShared::set, called by the owner or from inside a running closure
Set(x) ==
    /\ cell' = x
    /\ lastSet' = x
    /\ got' = None
    /\ pending' = NoUpdate
    /\ calls' = Reentered(calls)
    /\ UNCHANGED initial
    /\ UNCHANGED notMut

\* MutShared::update, up to the call of f: let old = self.get()
UpdateBegin(f) ==
    /\ Len(calls) < MaxNest
    /\ calls' = Append(calls, [f |-> f, old |-> cell, re |-> FALSE])
    /\ UNCHANGED <<cell, initial, got, lastSet, pending>>
    /\ UNCHANGED notMut

\* variant: f is applied to the value found in the cell when f returns
UpdateEnd_Reread ==
    /\ calls # <<>>
    /\ LET fr == calls[Len(calls)]
       IN  /\ cell' = Apply(fr.f, cell)
           /\ lastSet' = Apply(fr.f, cell)
           /\ pending' = [f |-> fr.f, v |-> fr.old, re |-> fr.re]
    /\ got' = None
    /\ calls' = Reentered(SubSeq(calls, 1, Len(calls) - 1))
    /\ UNCHANGED initial
    /\ UNCHANGED notMut

\* f returns: self.set(f(old))
UpdateEnd ==
    /\ calls # <<>>
    /\ LET fr == calls[Len(calls)]
       IN  /\ cell' = Apply(fr.f, fr.old)
           /\ lastSet' = Apply(fr.f, fr.old)
           /\ pending' = [f |-> fr.f, v |-> fr.old, re |-> fr.re]
    /\ got' = None
    /\ calls' = Reentered(SubSeq(calls, 1, Len(calls) - 1))
    /\ UNCHANGED initial
    /\ UNCHANGED notMut

\* f fails abruptly: update stores nothing
UpdateAbort ==
    /\ calls # <<>>
    /\ calls' = SubSeq(calls, 1, Len(calls) - 1)
    /\ UNCHANGED <<cell, initial, got, lastSet, pending>>
    /\ UNCHANGED notMut

\* MutShared::new
MutSharedInit ==
    /\ cell \in CellValues
    /\ initial = cell
    /\ calls = <<>>
    /\ got = None
    /\ lastSet = None
    /\ pending = NoUpdate

\* a MutShared nobody uses
MutSharedIdle ==
    /\ cell = 0
    /\ initial = 0
    /\ calls = <<>>
    /\ got = None
    /\ lastSet = None
    /\ pending = NoUpdate

MutSharedNext ==
    \/ Get
    \/ \E x \in CellValues : Set(x)
    \/ \E f \in Funs : UpdateBegin(f)
    \/ UpdateEnd
    \/ UpdateAbort

\* ------------------------------------------------------------------------
\* TempFile
\* ------------------------------------------------------------------------

\* the clock readings a run starts from: just before the epoch, and just
\* before the hexadecimal name grows a digit
ClockStarts == {-1, 15}

\* the code points contents are made of: 'h' (one byte in UTF-8) and U+00E9
\* (two bytes)
Chars == {104, 233}

RECURSIVE StringsUpTo(_)
StringsUpTo(n) ==
    IF n = 0 THEN {<<>>}
    ELSE LET shorter == StringsUpTo(n - 1)
         IN  shorter \cup {Append(t, c) : t \in shorter, c \in Chars}

Contents == StringsUpTo(MaxLen)

Some(c) == [some |-> TRUE, s |-> c]

NoContent == [some |-> FALSE, s |-> <<>>]

\* what a caller writes through the handle of open_write
WriteData == {<<>>, <<169>>}

HexDigits ==
    <<"0", "1", "2", "3", "4", "5", "6", "7",
      "8", "9", "a", "b", "c", "d", "e", "f">>

\* format!("{:x}", n)
RECURSIVE Hex(_)
Hex(n) ==
    IF n < 16 THEN <<HexDigits[n + 1]>>
    ELSE Hex(n \div 16) \o <<HexDigits[(n % 16) + 1]>>

\* uuid(): the nanoseconds since the epoch, 0 when the clock reads earlier
Uuid(now) == Hex(IF now < 0 THEN 0 ELSE now)

\* temp_dir().push(format!("tmp-{}", uuid()))
PathOf(now) == <<"tmp-">> \o Uuid(now)

\* str::as_bytes of one code point below U+0800
EncodeChar(cp) ==
    IF cp < 128 THEN <<cp>> ELSE <<192 + (cp \div 64), 128 + (cp % 64)>>

\* str::as_bytes
RECURSIVE Encode(_)
Encode(str) ==
    IF str = <<>> THEN <<>> ELSE EncodeChar(Head(str)) \o Encode(Tail(str))

Invalid == [ok |-> FALSE, s |-> <<>>]

\* Read::read_to_string: the bytes as UTF-8, an error when they are not
RECURSIVE Decode(_)
Decode(bytes) ==
    IF bytes = <<>> THEN [ok |-> TRUE, s |-> <<>>]
    ELSE LET b == Head(bytes)
         IN  IF b < 128
             THEN LET r == Decode(Tail(bytes))
                  IN  IF r.ok THEN [ok |-> TRUE, s |-> <<b>> \o r.s] ELSE Invalid
             ELSE IF /\ b >= 194 /\ b < 224 /\ Len(bytes) >= 2
                     /\ bytes[2] >= 128 /\ bytes[2] < 192
             THEN LET r == Decode(Tail(Tail(bytes)))
                      cp == (b - 192) * 64 + (bytes[2] - 128)
                  IN  IF r.ok THEN [ok |-> TRUE, s |-> <<cp>> \o r.s] ELSE Invalid
             ELSE Invalid

Exists(p) == p \in DOMAIN fs

\* fs::write / File::create: the file is created or truncated, then written
Written(p, bytes) ==
    [q \in DOMAIN fs \cup {p} |-> IF q = p THEN bytes ELSE fs[q]]

\* fs::remove_file on an existing file
Removed(p) == [q \in DOMAIN fs \ {p} |-> fs[q]]

\* the instances whose file at p has been rewritten are no longer untouched
Touch(is, p) ==
    [k \in DOMAIN is |->
        IF is[k].path = p THEN [is[k] EXCEPT !.dirty = TRUE] ELSE is[k]]

Result(op, i, ok) ==
    [op |-> op, i |-> i, ok |-> ok, out |-> <<>>, clean |-> FALSE,
     discarded |-> FALSE, how |-> "none"]

\* the system clock moves on
Tick ==
    /\ \E st \in ClockStarts : clock - st \in 0..(MaxTicks - 1)
    /\ clock' = clock + 1
    /\ UNCHANGED <<fs, inst, res>>
    /\ UNCHANGED notTmp

\* TempFile::new(content)
New(content) ==
    /\ Len(inst) < MaxInst
    /\ LET p == PathOf(clock)
       IN  /\ fs' = Written(p, Encode(content.s))
           /\ inst' = Append(Touch(inst, p),
                             [path |-> p, alive |-> TRUE, removals |-> 0,
                              content |-> content.s, dirty |-> FALSE])
    /\ res' = Result("new", Len(inst) + 1, TRUE)
    /\ UNCHANGED clock
    /\ UNCHANGED notTmp

\* open_read, then ReadExt::read_string on the handle
ReadBack(p) ==
    IF Exists(p) THEN Decode(fs[p]) ELSE Invalid

\* TempFile::open_read followed by read_string
OpenRead(i) ==
    /\ inst[i].alive
    /\ LET r == ReadBack(inst[i].path)
       IN  res' = [Result("open_read", i, r.ok) EXCEPT
                      !.out = r.s, !.clean = ~inst[i].dirty]
    /\ UNCHANGED <<clock, fs, inst>>
    /\ UNCHANGED notTmp

\* TempFile::open_write (File::create), the caller writing data to the handle
OpenWrite(i, data) ==
    /\ inst[i].alive
    /\ fs' = Written(inst[i].path, data)
    /\ inst' = Touch(inst, inst[i].path)
    /\ res' = Result("open_write", i, TRUE)
    /\ UNCHANGED clock
    /\ UNCHANGED notTmp

\* variant: the error of remove_file is unwrapped
DropInst_Unwrap(i, how, denied) ==
    LET p == inst[i].path
        fails == denied \/ ~Exists(p)
    IN  /\ inst[i].alive
        /\ fs' = IF fails THEN fs ELSE Removed(p)
        /\ inst' = [inst EXCEPT ![i].alive = FALSE,
                                ![i].removals = inst[i].removals + 1]
        /\ res' = [Result("drop", i, ~fails) EXCEPT
                      !.discarded = FALSE, !.how = how]
        /\ UNCHANGED clock
        /\ UNCHANGED notTmp

\* Drop for TempFile: let _ = fs::remove_file(&self.path)
DropInst(i, how, denied) ==
    LET p == inst[i].path
        fails == denied \/ ~Exists(p)
    IN  /\ inst[i].alive
        /\ fs' = IF fails THEN fs ELSE Removed(p)
        /\ inst' = [inst EXCEPT ![i].alive = FALSE,
                                ![i].removals = inst[i].removals + 1]
        /\ res' = [Result("drop", i, TRUE) EXCEPT
                      !.discarded = fails, !.how = how]
        /\ UNCHANGED clock
        /\ UNCHANGED notTmp

\* the ways a scope is left
Exits == {"return", "early", "panic"}

\* variant: the file is left behind when the scope is left by a panic
Drop_SkipOnPanic(i, how) ==
    IF how = "panic"
    THEN /\ inst[i].alive
         /\ inst' = [inst EXCEPT ![i].alive = FALSE]
         /\ res' = [Result("drop", i, TRUE) EXCEPT !.how = how]
         /\ UNCHANGED <<clock, fs>>
         /\ UNCHANGED notTmp
    ELSE DropInst(i, how, FALSE)

\* the instance goes out of scope; the file system lets the owner remove it
Drop(i, how) == DropInst(i, how, FALSE)

\* the instance goes out of scope; remove_file is refused (permission denied)
DropDenied(i, how) == DropInst(i, how, TRUE)

\* something else removes the file from the temporary directory
ExternalRemove(i) ==
    /\ Exists(inst[i].path)
    /\ fs' = Removed(inst[i].path)
    /\ UNCHANGED <<clock, inst, res>>
    /\ UNCHANGED notTmp

\* TempFile::new when fs::write / File::create is refused: the error is
\* returned and no instance exists
NewDenied ==
    /\ res' = Result("new", 0, FALSE)
    /\ UNCHANGED <<clock, fs, inst>>
    /\ UNCHANGED notTmp

TempFileInit ==
    /\ clock \in ClockStarts
    /\ fs = <<>>
    /\ inst = <<>>
    /\ res = Result("none", 0, TRUE)

\* no TempFile is ever made
TempFileIdle ==
    /\ clock = 15
    /\ fs = <<>>
    /\ inst = <<>>
    /\ res = Result("none", 0, TRUE)

TempFileNext ==
    \/ Tick
    \/ \E c \in Contents : New(Some(c))
    \/ New(NoContent)
    \/ \E i \in DOMAIN inst : OpenRead(i)
    \/ \E i \in DOMAIN inst, data \in WriteData : OpenWrite(i, data)
    \/ \E i \in DOMAIN inst, how \in Exits : Drop(i, how)

TempFileFaultNext ==
    \/ TempFileNext
    \/ \E i \in DOMAIN inst, how \in Exits : DropDenied(i, how)
    \/ \E i \in DOMAIN inst : ExternalRemove(i)
    \/ NewDenied

\* SelfRef::new
SelfRefInit ==
    /\ value \in 10..(MaxValue - 1)
    /\ flag = 0
    /\ views = <<>>
    /\ stack = <<>>
    /\ mode = "run"
    /\ ev = [op |-> "none", ok |-> TRUE, shared |-> 0, excl |-> 0]
    /\ lastCall = NoCall
    /\ prevCall = NoCall

SelfRefNext ==
    \/ Borrow
    \/ BorrowMut
    \/ Release
    \/ Write
    \/ With
    \/ WithMut
    \/ Return
    \/ FPanic
    \/ Unwind
    \/ UnwindScope
    \/ Catch

\* a SelfRef nobody uses
SelfRefIdle ==
    /\ value = 10
    /\ flag = 0
    /\ views = <<>>
    /\ stack = <<>>
    /\ mode = "run"
    /\ ev = [op |-> "none", ok |-> TRUE, shared |-> 0, excl |-> 0]
    /\ lastCall = NoCall
    /\ prevCall = NoCall

\* ------------------------------------------------------------------------
\* FieldSplit
\* ------------------------------------------------------------------------

\* the fields of the parent structure; a projection |p| &mut p.x is named
\* by the field x it returns a reference to
Fields == {"a", "b", "c"}

FieldValues == 0..MaxField

Parents == [Fields -> FieldValues]

NoFieldEvent ==
    [op |-> "none", f |-> "none", v |-> 0, before |-> [g \in Fields |-> 0]]

\* proj(self.parent): the reference points into the parent itself, so it
\* reads what the parent holds now
Project(p, f) == p[f]

\* variant: a store through the reference lands on the whole parent
WriteThrough_Whole(p, f, v) == [g \in DOMAIN p |-> v]

\* a store through the &mut U that field returned
WriteThrough(p, f, v) == [p EXCEPT ![f] = v]

\* FieldSplit::field(proj): a fresh reborrow of the parent; the reference a
\* previous call returned is dead by now (it borrowed the splitter)
Field(f) ==
    /\ held' = f
    /\ fev' = [op |-> "field", f |-> f, v |-> Project(parent, f),
               before |-> parent]
    /\ UNCHANGED <<parent, written>>
    /\ UNCHANGED notSplit

\* the caller stores v through the reference it holds
WriteRef(v) ==
    /\ held # "none"
    /\ parent' = WriteThrough(parent, held, v)
    /\ fev' = [op |-> "write", f |-> held, v |-> v, before |-> parent]
    /\ written' = written \cup {held}
    /\ UNCHANGED held
    /\ UNCHANGED notSplit

\* the returned reference goes out of scope
EndRef ==
    /\ held # "none"
    /\ held' = "none"
    /\ UNCHANGED <<parent, fev, written>>
    /\ UNCHANGED notSplit

\* FieldSplit::new(parent)
FieldSplitInit ==
    /\ parent \in Parents
    /\ held = "none"
    /\ fev = NoFieldEvent
    /\ written = {}

\* a FieldSplit nobody uses
FieldSplitIdle ==
    /\ parent = [g \in Fields |-> 0]
    /\ held = "none"
    /\ fev = NoFieldEvent
    /\ written = {}

FieldSplitNext ==
    \/ \E f \in Fields : Field(f)
    \/ \E v \in FieldValues : WriteRef(v)
    \/ EndRef

InitSelfRef == SelfRefInit /\ MutSharedIdle /\ TempFileIdle /\ FieldSplitIdle

InitMutShared == MutSharedInit /\ SelfRefIdle /\ TempFileIdle /\ FieldSplitIdle

InitTempFile == TempFileInit /\ SelfRefIdle /\ MutSharedIdle /\ FieldSplitIdle

InitFieldSplit == FieldSplitInit /\ SelfRefIdle /\ MutSharedIdle /\ TempFileIdle

FieldSplitSpec == InitFieldSplit /\ [][FieldSplitNext]_vars

SelfRefSpec == InitSelfRef /\ [][SelfRefNext]_vars

MutSharedSpec == InitMutShared /\ [][MutSharedNext]_vars

TempFileSpec == InitTempFile /\ [][TempFileNext]_vars

TempFileFaultSpec == InitTempFile /\ [][TempFileFaultNext]_vars

\* ------------------------------------------------------------------------
\* Properties of SelfRef
\* ------------------------------------------------------------------------

\* C1: the outstanding views are either at most one exclusive view and no
\* shared view, or no exclusive view and any number of shared views; an
\* exclusive view is never outstanding together with another view.
C1_ReaderWriterDiscipline ==
    /\ NExcl(views) <= 1
    /\ NExcl(views) = 1 => Len(views) = 1

\* an exclusive view is outstanding and a conflicting borrow() was refused
C1_Witness ==
    /\ NExcl(views) = 1
    /\ ev.op = "borrow"
    /\ ~ev.ok

C2_Outcome ==
    /\ ev.op = "borrow" => (ev.ok <=> ev.excl = 0)
    /\ ev.op = "borrow_mut" => (ev.ok <=> (ev.excl = 0 /\ ev.shared = 0))

C2_Step ==
    /\ (mode = "run" /\ mode' = "unwind" /\ ev'.op \in {"borrow", "borrow_mut"})
          => (value' = value /\ views' = views /\ flag' = flag)
    /\ (Len(views') > Len(views) /\ ev'.op = "borrow")
          => /\ ev'.ok
             /\ NShared(views') = NShared(views) + 1
             /\ NExcl(views') = NExcl(views)
    /\ (Len(views') > Len(views) /\ ev'.op = "borrow_mut")
          => /\ ev'.ok
             /\ NExcl(views') = NExcl(views) + 1
             /\ NShared(views') = NShared(views)

\* C2: borrow() panics exactly when an exclusive view is outstanding and
\* otherwise hands out a shared view; borrow_mut() panics exactly when any
\* view is outstanding and otherwise hands out an exclusive view; a request
\* that panics leaves the value and the outstanding views unchanged.
C2_BorrowRequests == []C2_Outcome /\ [][C2_Step]_vars

\* a borrow_mut() was refused while two shared views were outstanding
C2_Witness ==
    /\ ev.op = "borrow_mut"
    /\ ~ev.ok
    /\ ev.shared = 2
    /\ mode = "unwind"
    /\ NShared(views) = 2

\* C3: a borrow_mut() requested while an exclusive view is held panics; once
\* every outstanding view is released the borrow state is clear and the next
\* borrow() or borrow_mut() succeeds.
C3_ReleaseClears ==
    /\ views = <<>> => flag = 0
    /\ (ev.op = "borrow_mut" /\ ev.excl > 0) => ~ev.ok
    /\ (ev.op \in {"borrow", "borrow_mut"} /\ ev.shared + ev.excl = 0) => ev.ok
    /\ views = <<>> => (CanBorrowMut(flag) /\ CanBorrow(flag))

\* the second borrow_mut() was refused while the first exclusive view was
\* held, and that view has since been released
C3_Witness ==
    /\ ev.op = "borrow_mut"
    /\ ~ev.ok
    /\ ev.excl = 1
    /\ mode = "run"
    /\ views = <<>>

C5_Returned ==
    got # None => got = (IF lastSet = None THEN initial ELSE lastSet)

C5_GetStep == (got' # got /\ got' # None) => cell' = cell

\* C5: get() returns the argument of the most recent set, or the initial
\* value when no set has preceded it, and get() does not change the value.
C5_GetReturnsLastSet == []C5_Returned /\ [][C5_GetStep]_vars

\* a get() that returned the argument of a set which replaced the initial
\* value
C5_Witness ==
    /\ got # None
    /\ lastSet # None
    /\ got # initial
    /\ pending = NoUpdate

\* C6: the get() following update(f) on a cell holding v returns f(v), also
\* when f stored to the same cell while it ran.
C6_UpdateStores ==
    (pending # NoUpdate /\ got # None) => got = Apply(pending.f, pending.v)

\* a get() after an update whose closure stored another value to the cell
C6_Witness ==
    /\ pending # NoUpdate
    /\ pending.re
    /\ got # None
    /\ got # pending.v
    /\ calls = <<>>

\* ------------------------------------------------------------------------
\* Properties of TempFile
\* ------------------------------------------------------------------------

C7_Once ==
    \A i \in DOMAIN inst : inst[i].removals = (IF inst[i].alive THEN 0 ELSE 1)

C7_Step ==
    \A i \in DOMAIN inst :
        (inst[i].alive /\ ~inst'[i].alive) => inst[i].path \notin DOMAIN fs'

Alive == {i \in DOMAIN inst : inst[i].alive}

\* C8: the file of every live TempFile exists and no two live instances
\* have the same path.
C8_ExclusivePath ==
    \A i \in Alive :
        /\ Exists(inst[i].path)
        /\ \A j \in Alive : j # i => inst[j].path # inst[i].path

\* C9: reading back a live TempFile that nothing has written to since it
\* was created yields the content it was created with (empty for None).
C9_ReadBack ==
    (res.op = "open_read" /\ res.clean)
        => (res.ok /\ res.out = inst[res.i].content)

C10_NoError ==
    /\ res.op = "drop"
          => (res.ok /\ ~inst[res.i].alive /\ inst[res.i].removals = 1)
    /\ \A i \in DOMAIN inst : inst[i].removals <= 1

C10_Step ==
    \A i \in DOMAIN inst :
        (inst[i].alive /\ ~inst'[i].alive /\ res'.discarded)
            => /\ fs' = fs
               /\ res'.ok
               /\ inst'[i].removals = inst[i].removals + 1

\* C10: dropping a TempFile never hands an error to anyone: a failed removal
\* is discarded, the drop completes, and the removal is not attempted again.
C10_DropNeverFails == []C10_NoError /\ [][C10_Step]_vars

\* a drop whose remove_file was refused: the file is still there, the
\* instance is gone and no error came out
C10_Witness ==
    /\ res.op = "drop"
    /\ res.discarded
    /\ res.ok
    /\ ~inst[res.i].alive
    /\ Exists(inst[res.i].path)

\* ------------------------------------------------------------------------
\* Properties of FieldSplit
\* ------------------------------------------------------------------------

\* C11: a store through the reference returned by field(proj) changes the
\* field proj targets and no other field of the parent, whichever field it
\* is; and every field call, in any order, sees the parent's current state.
C11_FieldFrame ==
    /\ fev.op = "write"
          => /\ parent[fev.f] = fev.v
             /\ \A g \in Fields \ {fev.f} : parent[g] = fev.before[g]
    /\ fev.op = "field"
          => /\ fev.v = parent[fev.f]
             /\ parent = fev.before

\* a and b have both been stored to through their references, the last
\* store changed b, and a still differs from b
C11_Witness ==
    /\ fev.op = "write"
    /\ fev.f = "b"
    /\ fev.v # fev.before["b"]
    /\ {"a", "b"} \subseteq written
    /\ parent["a"] # parent["b"]

====
